---- MODULE Spec2Model ----
(***************************************************************************)
(* A model of sanic/app.py (class Sanic): the per-request pipeline         *)
(* handle_request with its middleware chains and two-level error           *)
(* containment, and the server bootstrap run / serve_multiple / stop.      *)
(*                                                                         *)
(* Python values are modelled as records of one shape (Obj), so that       *)
(* truthiness, identity of a response and the text of a fallback response  *)
(* can be told apart.  Callables supplied by the application (hooks, the   *)
(* router, the handler, the error handler, the response callback) are the  *)
(* environment: each invocation nondeterministically returns an absent     *)
(* value, returns a response of its own, or raises an Exception, and does  *)
(* so either directly or through an awaitable.  What they raise is an      *)
(* Exception, the class the except clauses at lines 199 and 208 name.      *)
(* Registrations and run happen while no invocation of handle_request is   *)
(* in flight.  stop is called by serve_multiple, its one caller in the     *)
(* file.                                                                   *)
(***************************************************************************)
EXTENDS Integers, Sequences, FiniteSets, TLC

\* ----------------------------------------------------------------------
\* Bounds
\* ----------------------------------------------------------------------
NumHooks == 2        \* distinct middleware callables the application owns
MaxChain == 2        \* longest middleware chain of either kind
MaxWorkers == 3      \* largest workers argument given to run
MaxStops == 2        \* calls of stop made from outside serve_multiple

Hooks == 1..NumHooks
Reqs == {1, 2}        \* invocations of handle_request that may be in flight
Sequential == {1}     \* the invocation used when requests come one at a time

\* ----------------------------------------------------------------------
\* Python values
\* ----------------------------------------------------------------------
Obj(kind, src, by, req, body) ==
    [kind |-> kind, src |-> src, by |-> by, req |-> req, body |-> body]

PyFalse == Obj("False", "", 0, 0, <<>>)
PyNone == Obj("None", "", 0, 0, <<>>)
NoObj == Obj("-", "", 0, 0, <<>>)
Awaitable(src, by, req) == Obj("awaitable", src, by, req, <<>>)
Resp(src, by, req) == Obj("response", src, by, req, <<>>)
Error(src, by, req) == Obj("Exception", src, by, req, <<>>)

FalsyKinds == {"False", "None"}

Truthy(v) == v.kind \notin FalsyKinds

\* the pieces a formatted text is made of
Lit(s) == [t |-> "lit", lit |-> s, err |-> NoObj]
Msg(e) == [t |-> "msg", lit |-> "", err |-> e]
Stack(e) == [t |-> "format_exc", lit |-> "", err |-> e]

HTTPResponse(body, req) == Obj("response", "HTTPResponse", 0, req, body)

\* what a callable did: returned v, or raised v
Ret(v) == [t |-> "return", v |-> v]
Raise(e) == [t |-> "raise", v |-> e]
NoOutcome == [t |-> "-", v |-> NoObj]

VARIABLES
    request_middleware,    \* deque of hooks, run front to back
    response_middleware,   \* deque of hooks, run front to back
    reg_request,           \* history: hooks registered for 'request', in order
    reg_response,          \* history: hooks registered for 'response', in order
    debug,                 \* self.debug: "None", "True" or "False"
    error_handler_debug,   \* self.error_handler.debug
    pc,                    \* per invocation of handle_request: its position
    response,              \* per invocation: the local variable response
    idx,                   \* per invocation: position in the chain iterated
    exc,                   \* per invocation: the exception caught at line 199
    pending,               \* per invocation: outcome of the awaitable awaited
    calls,                 \* history: per invocation, calls made and results
    run_pc,                \* position of the one call of run
    workers,               \* the workers argument of run
    server_settings,       \* the dict run builds and serve_multiple rewrites
    stop_event,            \* the multiprocessing Event: is it set
    signal_handlers,       \* signals serve_multiple installed a handler for
    sock,                  \* self.sock: None or the socket object
    sockets_created,       \* history: number of socket() calls that succeeded
    processes,             \* self.processes: None or the list of Process
    proc,                  \* every Process object by number
    joined,                \* number of join() calls that have returned
    loop_stops,            \* history: number of get_event_loop().stop() calls
    served,                \* history: settings of each serve() call made here
    log                    \* history: lines written to the log

pipeVars == <<request_middleware, response_middleware, reg_request,
              reg_response, pc, response, idx, exc, pending, calls>>

appVars == <<debug, error_handler_debug>>

runVars == <<run_pc, workers, server_settings, stop_event, signal_handlers,
             sock, sockets_created, processes, proc, joined, loop_stops, served,
             log>>

vars == <<pipeVars, appVars, runVars>>

\* ----------------------------------------------------------------------
\* History of one invocation: every call it makes and how the call ended
\* ----------------------------------------------------------------------
Ev(op, who, i, hook, req, arg, val) ==
    [op |-> op, who |-> who, idx |-> i, hook |-> hook, req |-> req,
     arg |-> arg, val |-> val]

Called(who, i, hook, req, arg) == Ev("call", who, i, hook, req, arg, NoObj)
Ended(out, who, i, hook, req, arg) == Ev(out.t, who, i, hook, req, arg, out.v)

\* what an application callable may do when invoked for request req
Outcomes(src, by, req) ==
    {Ret(PyNone), Ret(Resp(src, by, req)), Raise(Error(src, by, req))}

RouterOutcomes(req) ==
    {Ret(PyNone), Ret(Resp("router", 0, req)), Raise(Error("router", 0, req))}

CallbackOutcomes(req) ==
    {Ret(PyNone), Raise(Error("response_callback", 0, req))}

ServerError(req) == Error("ServerError", 0, req)

\* ----------------------------------------------------------------------
\* Sanic.middleware / register_middleware
\* ----------------------------------------------------------------------
\* the kind a registration attaches to: a bare callable means 'request'
attach_to(form) == IF form = "bare" THEN "request" ELSE form

\* a registration that inserts request hooks at the head
request_chain_after_head(kind, m, chain) ==
    IF kind = "request" THEN <<m>> \o chain ELSE chain

\* lines 90-91
request_chain_after(kind, m, chain) ==
    IF kind = "request" THEN Append(chain, m) ELSE chain

\* a registration that appends at the tail whatever the kind
response_chain_after_tail(kind, m, chain) ==
    IF kind = "response" THEN Append(chain, m) ELSE chain

response_chain_after(kind, m, chain) ==
    IF kind = "response" THEN <<m>> \o chain ELSE chain

Forms == {"bare", "request", "response"}

\* registration happens between requests: no invocation is iterating a chain;
\* the application registers a given hook once per kind
middleware(form, m) ==
    /\ \A r \in Reqs : pc[r] = "idle"
    /\ IF attach_to(form) = "request"
       THEN \A k \in DOMAIN request_middleware : request_middleware[k] # m
       ELSE \A k \in DOMAIN response_middleware : response_middleware[k] # m
    /\ Len(request_chain_after(attach_to(form), m, request_middleware)) <= MaxChain
    /\ Len(response_chain_after(attach_to(form), m, response_middleware)) <= MaxChain
    /\ request_middleware' =
           request_chain_after(attach_to(form), m, request_middleware)
    /\ response_middleware' =
           response_chain_after(attach_to(form), m, response_middleware)
    /\ reg_request' = IF attach_to(form) = "request"
                      THEN Append(reg_request, m) ELSE reg_request
    /\ reg_response' = IF attach_to(form) = "response"
                       THEN Append(reg_response, m) ELSE reg_response
    /\ UNCHANGED <<pc, response, idx, exc, pending, calls>>
    /\ UNCHANGED <<appVars, runVars>>

\* ----------------------------------------------------------------------
\* Sanic.handle_request: where control goes next
\* ----------------------------------------------------------------------
At(p, i, resp) == [pc |-> p, idx |-> i, response |-> resp]

\* line 190: the response-middleware phase, or straight to the callback
enter_response_phase(resp) ==
    IF Len(response_middleware) > 0
    THEN At("L192", 1, resp)
    ELSE At("L218", 0, resp)

\* a handler phase that runs whatever the request middleware answered
after_request_phase_always(resp) == At("L174", 0, resp)

\* line 168: the handler runs only when no request middleware answered
after_request_phase(resp) ==
    IF ~Truthy(resp)
    THEN At("L174", 0, resp)
    ELSE enter_response_phase(resp)

\* a request phase that goes on after a middleware has answered
after_request_middleware_nobreak(i, v) ==
    IF i < Len(request_middleware)
    THEN At("L161", i + 1, v)
    ELSE after_request_phase(v)

\* lines 160-165: a request middleware returned v
after_request_middleware(i, v) ==
    IF Truthy(v)
    THEN after_request_phase(v)
    ELSE IF i < Len(request_middleware)
         THEN At("L161", i + 1, v)
         ELSE after_request_phase(v)

\* a response phase that goes on after a middleware has answered
after_response_middleware_nobreak(i, resp, v) ==
    IF i < Len(response_middleware)
    THEN At("L192", i + 1, IF Truthy(v) THEN v ELSE resp)
    ELSE At("L218", 0, IF Truthy(v) THEN v ELSE resp)

\* lines 191-197: a response middleware returned v while response is resp
after_response_middleware(i, resp, v) ==
    IF Truthy(v)
    THEN At("L218", 0, v)
    ELSE IF i < Len(response_middleware)
         THEN At("L192", i + 1, resp)
         ELSE At("L218", 0, resp)

DebugBody(e) ==
    <<Lit("Error while handling error: "), Msg(e), Lit("\nStack: "), Stack(e)>>

GenericBody == <<Lit("An error occured while handling an error")>>

\* a test that takes a flag never set for a flag that is on
DebugOn_unless_false(d) == d # "False"

\* line 209: if self.debug
DebugOn(d) == d = "True"

\* lines 208-215: the response built when the error handler itself raised e
fallback_response(d, e, req) ==
    IF DebugOn(d)
    THEN HTTPResponse(DebugBody(e), req)
    ELSE HTTPResponse(GenericBody, req)

\* an invocation that keeps response on the application object
Set_shared(r, k, e, pend, evs) ==
    /\ pc' = [pc EXCEPT ![r] = k.pc]
    /\ idx' = [idx EXCEPT ![r] = k.idx]
    /\ response' = [q \in Reqs |-> k.response]
    /\ exc' = [exc EXCEPT ![r] = e]
    /\ pending' = [pending EXCEPT ![r] = pend]
    /\ calls' = [calls EXCEPT ![r] = @ \o evs]
    /\ UNCHANGED <<request_middleware, response_middleware,
                   reg_request, reg_response>>
    /\ UNCHANGED <<appVars, runVars>>

\* ----------------------------------------------------------------------
\* Sanic.handle_request: the steps of one invocation r
\* ----------------------------------------------------------------------
Set(r, k, e, pend, evs) ==
    /\ pc' = [pc EXCEPT ![r] = k.pc]
    /\ idx' = [idx EXCEPT ![r] = k.idx]
    /\ response' = [response EXCEPT ![r] = k.response]
    /\ exc' = [exc EXCEPT ![r] = e]
    /\ pending' = [pending EXCEPT ![r] = pend]
    /\ calls' = [calls EXCEPT ![r] = @ \o evs]
    /\ UNCHANGED <<request_middleware, response_middleware,
                   reg_request, reg_response>>
    /\ UNCHANGED <<appVars, runVars>>

\* an except clause that delivers what it has without the error handler
Caught_untranslated(r, e, evs) ==
    Set(r, At("L218", 0, response[r]), e, NoOutcome, evs)

\* line 199: an Exception raised inside the try block is caught
Caught(r, e, evs) == Set(r, At("L205", 0, response[r]), e, NoOutcome, evs)

\* lines 150-159
handle_request_begin(r) ==
    /\ pc[r] = "idle"
    /\ Set(r, IF Len(request_middleware) > 0
              THEN At("L161", 1, PyFalse)
              ELSE after_request_phase(PyFalse),
           NoObj, NoOutcome, <<>>)

\* lines 161-165, once the middleware's result is known
request_middleware_result(r, out, evs) ==
    LET i == idx[r]
        h == request_middleware[i]
        end == Ended(out, "request_middleware", i, h, r, NoObj)
    IN  IF out.t = "raise"
        THEN Caught(r, out.v, evs \o <<end>>)
        ELSE Set(r, after_request_middleware(i, out.v), NoObj, NoOutcome,
                 evs \o <<end>>)

\* line 161: response = middleware(request)
request_middleware_call(r) ==
    /\ pc[r] = "L161"
    /\ LET i == idx[r]
           h == request_middleware[i]
           call == Called("request_middleware", i, h, r, NoObj)
       IN  \E out \in Outcomes("request_middleware", h, r), aw \in BOOLEAN :
              IF aw
              THEN Set(r, At("L163", i, Awaitable("request_middleware", h, r)),
                       NoObj, out, <<call>>)
              ELSE request_middleware_result(r, out, <<call>>)

\* line 163: response = await response
request_middleware_resume(r) ==
    /\ pc[r] = "L163"
    /\ request_middleware_result(r, pending[r], <<>>)

\* lines 174-178: handler, args, kwargs = self.router.get(request)
router_get(r) ==
    /\ pc[r] = "L174"
    /\ LET call == Called("router", 0, 0, r, NoObj)
       IN  \E out \in RouterOutcomes(r) :
              LET end == Ended(out, "router", 0, 0, r, NoObj)
              IN  IF out.t = "raise"
                  THEN Caught(r, out.v, <<call, end>>)
                  ELSE IF out.v = PyNone
                       THEN Caught(r, ServerError(r),
                                   <<call, end,
                                     Ended(Raise(ServerError(r)),
                                           "handle_request", 0, 0, r, NoObj)>>)
                       ELSE Set(r, At("L181", 0, response[r]), NoObj,
                                NoOutcome, <<call, end>>)

\* lines 181-183, once the handler's result is known
handler_result(r, out, evs) ==
    LET end == Ended(out, "handler", 0, 0, r, NoObj)
    IN  IF out.t = "raise"
        THEN Caught(r, out.v, evs \o <<end>>)
        ELSE Set(r, enter_response_phase(out.v), NoObj, NoOutcome,
                 evs \o <<end>>)

\* line 181: response = handler(request, *args, **kwargs)
handler_call(r) ==
    /\ pc[r] = "L181"
    /\ LET call == Called("handler", 0, 0, r, NoObj)
       IN  \E out \in Outcomes("handler", 0, r), aw \in BOOLEAN :
              IF aw
              THEN Set(r, At("L183", 0, Awaitable("handler", 0, r)),
                       NoObj, out, <<call>>)
              ELSE handler_result(r, out, <<call>>)

\* line 183: response = await response
handler_resume(r) ==
    /\ pc[r] = "L183"
    /\ handler_result(r, pending[r], <<>>)

\* lines 192-197, once the middleware's result is known
response_middleware_result(r, out, evs) ==
    LET i == idx[r]
        h == response_middleware[i]
        end == Ended(out, "response_middleware", i, h, r, response[r])
    IN  IF out.t = "raise"
        THEN Caught(r, out.v, evs \o <<end>>)
        ELSE Set(r, after_response_middleware(i, response[r], out.v),
                 NoObj, NoOutcome, evs \o <<end>>)

\* line 192: _response = middleware(request, response)
response_middleware_call(r) ==
    /\ pc[r] = "L192"
    /\ LET i == idx[r]
           h == response_middleware[i]
           call == Called("response_middleware", i, h, r, response[r])
       IN  \E out \in Outcomes("response_middleware", h, r), aw \in BOOLEAN :
              IF aw
              THEN Set(r, At("L194", i, response[r]), NoObj, out, <<call>>)
              ELSE response_middleware_result(r, out, <<call>>)

\* line 194: _response = await _response
response_middleware_resume(r) ==
    /\ pc[r] = "L194"
    /\ response_middleware_result(r, pending[r], <<>>)

\* an error path without the inner try: the second error leaves the coroutine
error_handler_result_uncontained(r, out, evs) ==
    LET end == Ended(out, "error_handler", 0, 0, r, exc[r])
    IN  IF out.t = "raise"
        THEN Set(r, At("raised", 0, response[r]), out.v, NoOutcome,
                 evs \o <<end>>)
        ELSE Set(r, At("L218", 0, out.v), NoObj, NoOutcome, evs \o <<end>>)

\* an error path that hands its response to the response middleware
error_handler_result_then_hooks(r, out, evs) ==
    LET end == Ended(out, "error_handler", 0, 0, r, exc[r])
    IN  IF out.t = "raise"
        THEN Set(r, enter_response_phase(fallback_response(debug, out.v, r)),
                 NoObj, NoOutcome, evs \o <<end>>)
        ELSE Set(r, enter_response_phase(out.v), NoObj, NoOutcome,
                 evs \o <<end>>)

\* lines 205-215, once the error handler's result is known
error_handler_result(r, out, evs) ==
    LET end == Ended(out, "error_handler", 0, 0, r, exc[r])
    IN  IF out.t = "raise"
        THEN Set(r, At("L218", 0, fallback_response(debug, out.v, r)),
                 NoObj, NoOutcome, evs \o <<end>>)
        ELSE Set(r, At("L218", 0, out.v), NoObj, NoOutcome, evs \o <<end>>)

\* line 205: response = self.error_handler.response(request, e)
error_handler_call(r) ==
    /\ pc[r] = "L205"
    /\ LET call == Called("error_handler", 0, 0, r, exc[r])
       IN  \E out \in Outcomes("error_handler", 0, r), aw \in BOOLEAN :
              IF aw
              THEN Set(r, At("L207", 0, Awaitable("error_handler", 0, r)),
                       exc[r], out, <<call>>)
              ELSE error_handler_result(r, out, <<call>>)

\* line 207: response = await response
error_handler_resume(r) ==
    /\ pc[r] = "L207"
    /\ error_handler_result(r, pending[r], <<>>)

\* line 218: response_callback(response), outside every try block
response_callback(r) ==
    /\ pc[r] = "L218"
    /\ LET call == Called("response_callback", 0, 0, r, response[r])
       IN  \E out \in CallbackOutcomes(r) :
              LET end == Ended(out, "response_callback", 0, 0, r, response[r])
              IN  IF out.t = "raise"
                  THEN Set(r, At("raised", 0, response[r]), out.v, NoOutcome,
                           <<call, end>>)
                  ELSE Set(r, At("returned", 0, response[r]), NoObj, NoOutcome,
                           <<call, end>>)

\* the coroutine is finished and its frame discarded
handle_request_end(r) ==
    /\ pc[r] \in {"returned", "raised"}
    /\ pc' = [pc EXCEPT ![r] = "idle"]
    /\ idx' = [idx EXCEPT ![r] = 0]
    /\ response' = [response EXCEPT ![r] = NoObj]
    /\ exc' = [exc EXCEPT ![r] = NoObj]
    /\ pending' = [pending EXCEPT ![r] = NoOutcome]
    /\ calls' = [calls EXCEPT ![r] = <<>>]
    /\ UNCHANGED <<request_middleware, response_middleware,
                   reg_request, reg_response>>
    /\ UNCHANGED <<appVars, runVars>>

\* ----------------------------------------------------------------------
\* Sanic.run, Sanic.serve_multiple, Sanic.stop
\* ----------------------------------------------------------------------
None == <<>>
Some(x) == <<x>>

Settings(host, port, s, reuse_port, d) ==
    [host |-> host, port |-> port, sock |-> s, reuse_port |-> reuse_port,
     debug |-> d]

NoSettings == Settings("-", "-", "-", "-", "-")

Socket(reuseaddr, bound, inheritable, closes) ==
    [reuseaddr |-> reuseaddr, bound |-> bound, inheritable |-> inheritable,
     closes |-> closes]

Process(state, daemon, kwargs) ==
    [state |-> state, daemon |-> daemon, kwargs |-> kwargs]

NoProcess == Process("-", FALSE, NoSettings)

Pids == 1..MaxWorkers

Alive(p) == proc[p].state = "running"

Range(f) == {f[i] : i \in DOMAIN f}

\* lines 238-261: the flags, the settings dict and the first log line
run_begin(d, w) ==
    /\ run_pc = "idle"
    /\ debug' = d
    /\ error_handler_debug' = "True"
    /\ workers' = w
    /\ server_settings' = Settings("127.0.0.1", "8000", "None", "unset", d)
    /\ log' = Append(log, "Goin' Fast")
    /\ run_pc' = "L264"
    /\ UNCHANGED <<stop_event, signal_handlers, sock, sockets_created,
                   processes, proc, joined, loop_stops, served>>
    /\ UNCHANGED pipeVars

\* a test that sends a single worker down the multi-process path
single_process_below(w) == w < 1

\* line 264: which of the two ways of serving run takes
single_process(w) == w = 1

\* line 265: serve(**server_settings) in this process
serve_call ==
    /\ run_pc = "L264"
    /\ single_process(workers)
    /\ served' = Append(served, server_settings)
    /\ run_pc' = "L265"
    /\ UNCHANGED <<workers, server_settings, stop_event, signal_handlers, sock,
                   sockets_created, processes, proc, joined, loop_stops, log>>
    /\ UNCHANGED <<pipeVars, appVars>>

\* line 265: serve returns when its loop ends, or raises
serve_return ==
    /\ run_pc = "L265"
    /\ \E raised \in BOOLEAN : run_pc' = IF raised THEN "L272" ELSE "L275"
    /\ UNCHANGED <<workers, server_settings, stop_event, signal_handlers, sock,
                   sockets_created, processes, proc, joined, loop_stops, served,
                   log>>
    /\ UNCHANGED <<pipeVars, appVars>>

\* lines 267-269 and 297-303: up to the installation of the signal handlers
serve_multiple_begin ==
    /\ run_pc = "L264"
    /\ ~single_process(workers)
    /\ log' = Append(log, "Spinning up workers")
    /\ server_settings' = [server_settings EXCEPT !.reuse_port = "True"]
    /\ stop_event' = FALSE
    /\ signal_handlers' = {"SIGINT", "SIGTERM"}
    /\ run_pc' = "L305"
    /\ UNCHANGED <<workers, sock, sockets_created, processes, proc, joined,
                   loop_stops, served>>
    /\ UNCHANGED <<pipeVars, appVars>>

\* lines 302-303: the handler the parent runs on SIGINT or SIGTERM
signal_handler(sig) ==
    /\ sig \in signal_handlers
    /\ stop_event' = TRUE
    /\ UNCHANGED <<run_pc, workers, server_settings, signal_handlers, sock,
                   sockets_created, processes, proc, joined, loop_stops, served,
                   log>>
    /\ UNCHANGED <<pipeVars, appVars>>

\* settings that keep the address next to the socket
shared_settings_keeps_address(st) == [st EXCEPT !.sock = "self.sock"]

\* lines 309-311: the settings every worker is started with
shared_settings(st) ==
    [st EXCEPT !.sock = "self.sock", !.host = "None", !.port = "None"]

\* lines 305-313: socket(), setsockopt, bind, set_inheritable, processes = []
\* socket() or bind() may raise OSError
bind_socket ==
    /\ run_pc = "L305"
    /\ \E outcome \in {"ok", "socket raises", "bind raises"} :
          CASE outcome = "socket raises" ->
                  /\ run_pc' = "L272"
                  /\ UNCHANGED <<sock, sockets_created, server_settings,
                                 processes>>
            [] outcome = "bind raises" ->
                  /\ sock' = Some(Socket(TRUE, FALSE, FALSE, 0))
                  /\ sockets_created' = sockets_created + 1
                  /\ run_pc' = "L272"
                  /\ UNCHANGED <<server_settings, processes>>
            [] outcome = "ok" ->
                  /\ sock' = Some(Socket(TRUE, TRUE, TRUE, 0))
                  /\ sockets_created' = sockets_created + 1
                  /\ server_settings' = shared_settings(server_settings)
                  /\ processes' = Some(<<>>)
                  /\ run_pc' = IF workers > 0 THEN "L315" ELSE "L324"
    /\ UNCHANGED <<workers, stop_event, signal_handlers, proc, joined,
                   loop_stops, served, log>>
    /\ UNCHANGED <<pipeVars, appVars>>

\* line 314: the loop goes on while fewer than workers processes were started
more_to_spawn(n, w) == n < w

\* lines 315-318: one turn of the loop; Process.start() may raise OSError
spawn ==
    /\ run_pc = "L315"
    /\ LET p == Len(processes[1]) + 1
       IN  \E raised \in BOOLEAN :
              IF raised
              THEN /\ proc' = [proc EXCEPT
                               ![p] = Process("unstarted", TRUE, server_settings)]
                   /\ run_pc' = "L272"
                   /\ UNCHANGED processes
              ELSE /\ proc' = [proc EXCEPT
                               ![p] = Process("running", TRUE, server_settings)]
                   /\ processes' = Some(Append(processes[1], p))
                   /\ run_pc' = IF more_to_spawn(p, workers)
                                THEN "L315" ELSE "L321"
    /\ UNCHANGED <<workers, server_settings, stop_event, signal_handlers, sock,
                   sockets_created, joined, loop_stops, served, log>>
    /\ UNCHANGED <<pipeVars, appVars>>

\* a worker process ends, whenever it chooses to
worker_exit(p) ==
    /\ Alive(p)
    /\ proc' = [proc EXCEPT ![p].state = "exited"]
    /\ UNCHANGED <<run_pc, workers, server_settings, stop_event,
                   signal_handlers, sock, sockets_created, processes, joined,
                   loop_stops, served, log>>
    /\ UNCHANGED <<pipeVars, appVars>>

\* a join that returns without waiting for the process to end
join_without_waiting ==
    /\ run_pc = "L321"
    /\ joined' = joined + 1
    /\ run_pc' = IF joined + 1 < Len(processes[1]) THEN "L321" ELSE "L324"
    /\ UNCHANGED <<workers, server_settings, stop_event, signal_handlers, sock,
                   sockets_created, processes, proc, loop_stops, served, log>>
    /\ UNCHANGED <<pipeVars, appVars>>

\* line 321: process.join() returns once that process has ended
join ==
    /\ run_pc = "L321"
    /\ ~Alive(processes[1][joined + 1])
    /\ joined' = joined + 1
    /\ run_pc' = IF joined + 1 < Len(processes[1]) THEN "L321" ELSE "L324"
    /\ UNCHANGED <<workers, server_settings, stop_event, signal_handlers, sock,
                   sockets_created, processes, proc, loop_stops, served, log>>
    /\ UNCHANGED <<pipeVars, appVars>>

\* line 283: process.terminate()
terminate(P) == IF P.state = "running" THEN [P EXCEPT !.state = "terminated"] ELSE P

\* line 284: self.sock.close()
close(s) == [s EXCEPT !.closes = @ + 1]

\* a stop that takes the presence of a socket for the sign of workers
stop_if_socket ==
    /\ IF sock # None
       THEN /\ proc' = [p \in Pids |->
                           IF processes # None /\ p \in Range(processes[1])
                           THEN terminate(proc[p]) ELSE proc[p]]
            /\ sock' = Some(close(sock[1]))
       ELSE UNCHANGED <<proc, sock>>
    /\ loop_stops' = loop_stops + 1

\* lines 281-285: Sanic.stop
stop ==
    /\ IF processes # None
       THEN /\ proc' = [p \in Pids |-> IF p \in Range(processes[1])
                                       THEN terminate(proc[p]) ELSE proc[p]]
            /\ sock' = Some(close(sock[1]))
       ELSE UNCHANGED <<proc, sock>>
    /\ loop_stops' = loop_stops + 1

\* line 324: self.stop() once every join has returned
serve_multiple_stop ==
    /\ run_pc = "L324"
    /\ stop
    /\ run_pc' = "L275"
    /\ UNCHANGED <<workers, server_settings, stop_event, signal_handlers,
                   sockets_created, processes, joined, served, log>>
    /\ UNCHANGED <<pipeVars, appVars>>

\* lines 277-285: stop called by the application, at any moment
stop_called ==
    /\ loop_stops < MaxStops
    /\ stop
    /\ UNCHANGED <<run_pc, workers, server_settings, stop_event, signal_handlers,
                   sockets_created, processes, joined, served, log>>
    /\ UNCHANGED <<pipeVars, appVars>>

\* a run without the except clause: the exception reaches the caller
log_exception_reraise ==
    /\ run_pc = "L272"
    /\ run_pc' = "raised"
    /\ UNCHANGED <<workers, server_settings, stop_event, signal_handlers, sock,
                   sockets_created, processes, proc, joined, loop_stops, served,
                   log>>
    /\ UNCHANGED <<pipeVars, appVars>>

\* lines 271-273
log_exception ==
    /\ run_pc = "L272"
    /\ log' = Append(log, "Experienced exception while trying to serve")
    /\ run_pc' = "L275"
    /\ UNCHANGED <<workers, server_settings, stop_event, signal_handlers, sock,
                   sockets_created, processes, proc, joined, loop_stops, served>>
    /\ UNCHANGED <<pipeVars, appVars>>

\* line 275
run_end ==
    /\ run_pc = "L275"
    /\ log' = Append(log, "Server Stopped")
    /\ run_pc' = "returned"
    /\ UNCHANGED <<workers, server_settings, stop_event, signal_handlers, sock,
                   sockets_created, processes, proc, joined, loop_stops, served>>
    /\ UNCHANGED <<pipeVars, appVars>>

\* ----------------------------------------------------------------------
\* Sanic.__init__
\* ----------------------------------------------------------------------
Init ==
    /\ request_middleware = <<>>
    /\ response_middleware = <<>>
    /\ reg_request = <<>>
    /\ reg_response = <<>>
    /\ debug = "None"
    /\ error_handler_debug = "unset"
    /\ pc = [r \in Reqs |-> "idle"]
    /\ response = [r \in Reqs |-> NoObj]
    /\ idx = [r \in Reqs |-> 0]
    /\ exc = [r \in Reqs |-> NoObj]
    /\ pending = [r \in Reqs |-> NoOutcome]
    /\ calls = [r \in Reqs |-> <<>>]
    /\ run_pc = "idle"
    /\ workers = 0
    /\ server_settings = NoSettings
    /\ stop_event = FALSE
    /\ signal_handlers = {}
    /\ sock = None
    /\ sockets_created = 0
    /\ processes = None
    /\ proc = [p \in Pids |-> NoProcess]
    /\ joined = 0
    /\ loop_stops = 0
    /\ served = <<>>
    /\ log = <<>>

\* one invocation of handle_request
Handle(r) ==
    \/ handle_request_begin(r)
    \/ request_middleware_call(r)
    \/ request_middleware_resume(r)
    \/ router_get(r)
    \/ handler_call(r)
    \/ handler_resume(r)
    \/ response_middleware_call(r)
    \/ response_middleware_resume(r)
    \/ error_handler_call(r)
    \/ error_handler_resume(r)
    \/ response_callback(r)
    \/ handle_request_end(r)

\* the application: registrations and run precede the requests they serve
Next ==
    \/ \E form \in Forms, m \in Hooks : middleware(form, m)
    \/ \E d \in {"True", "False"} :
          (\A r \in Reqs : pc[r] = "idle") /\ run_begin(d, 1)
    \/ \E r \in Sequential : Handle(r)

Spec == Init /\ [][Next]_vars

\* one worker's event loop with two requests in flight: each is resumed at
\* its await points in any order; each chain holds at most one hook
NextConcurrent ==
    \/ \E form \in Forms, m \in Hooks :
          /\ IF attach_to(form) = "request"
             THEN request_middleware = <<>>
             ELSE response_middleware = <<>>
          /\ middleware(form, m)
    \/ \E r \in Reqs : Handle(r)

SpecConcurrent == Init /\ [][NextConcurrent]_vars

\* the server bootstrap: one call of run, the workers and the signals
NextRun ==
    \/ \E d \in {"True", "False"}, w \in 1..MaxWorkers : run_begin(d, w)
    \/ serve_call
    \/ serve_return
    \/ serve_multiple_begin
    \/ \E sig \in {"SIGINT", "SIGTERM"} : signal_handler(sig)
    \/ bind_socket
    \/ spawn
    \/ \E p \in Pids : worker_exit(p)
    \/ join
    \/ serve_multiple_stop
    \/ log_exception
    \/ run_end

SpecRun == Init /\ [][NextRun]_vars

\* the steps the process that called run takes by itself; a worker ends
\* when it chooses to and a signal arrives when it is sent
run_step ==
    \/ serve_call
    \/ serve_multiple_begin
    \/ bind_socket
    \/ spawn
    \/ join
    \/ serve_multiple_stop
    \/ log_exception
    \/ run_end

\* the server bootstrap, whose own steps are taken whenever they stay possible
SpecRunFair == Init /\ [][NextRun]_vars /\ WF_vars(run_step)

\* the server bootstrap, with an application that also calls stop itself
NextStop ==
    \/ NextRun
    \/ stop_called

SpecStop == Init /\ [][NextStop]_vars

\* ----------------------------------------------------------------------
\* Reading the history of an invocation
\* ----------------------------------------------------------------------
Is(e, op, who) == e.op = op /\ e.who = who

Picks(r, op, who) == SelectSeq(calls[r], LAMBDA e : Is(e, op, who))

HooksOf(evs) == [i \in DOMAIN evs |-> evs[i].hook]

Reverse(s) == [i \in DOMAIN s |-> s[Len(s) + 1 - i]]

IsPrefix(s, t) == Len(s) <= Len(t) /\ \A i \in DOMAIN s : s[i] = t[i]

Finished(r) == pc[r] \in {"returned", "raised"}

Deliveries(r) == Picks(r, "call", "response_callback")

\* the events that make the pipeline abandon its try block
Failure(e) ==
    /\ e.op = "raise"
    /\ e.who \in {"request_middleware", "router", "handle_request", "handler",
                  "response_middleware"}

Has(body, part) == \E i \in DOMAIN body : body[i] = part

HasStack(body) == \E i \in DOMAIN body : body[i].t = "format_exc"

HasMsg(body) == \E i \in DOMAIN body : body[i].t = "msg"

\* the value of the local variable response right after event k
ResponseAfter(r, k) ==
    IF k = Len(calls[r]) THEN response[r] ELSE calls[r][k + 1].arg

\* ----------------------------------------------------------------------
\* Claims about handle_request (specification Spec)
\* ----------------------------------------------------------------------

\* C1: every finished invocation of handle_request has called the response
\* callback exactly once, and the value it passed is a non-absent (truthy)
\* response, whatever the hooks, router, handler and error handler did.
C1_DeliveredOnceNonAbsent ==
    \A r \in Reqs :
        /\ Len(Deliveries(r)) <= 1
        /\ Finished(r) =>
              /\ Len(Deliveries(r)) = 1
              /\ Truthy(Deliveries(r)[1].arg)

\* C2 as stated: no invocation of handle_request ever ends by raising to its
\* caller, the response callback's own exceptions included.
C2_NeverRaises == \A r \in Reqs : pc[r] # "raised"

\* C2 as amended: an Exception raised by a request hook, the router, the
\* handler, a response hook or the error handler never leaves handle_request:
\* every invocation reaches the call of the response callback, and the only
\* exception that reaches the caller is one raised by that callback itself.
C2_OnlyCallbackRaisePropagates ==
    \A r \in Reqs :
        /\ Finished(r) => Len(Deliveries(r)) = 1
        /\ pc[r] = "raised" =>
              /\ Is(calls[r][Len(calls[r])], "raise", "response_callback")
              /\ exc[r] = calls[r][Len(calls[r])].val
        /\ \A k \in DOMAIN calls[r] :
              (calls[r][k].op = "raise" /\ k = Len(calls[r])) =>
                  \/ pc[r] \in {"L205", "L218"}
                  \/ Is(calls[r][k], "raise", "response_callback")

\* C2 witness: the handler raised, then the error handler raised, and the
\* invocation still returned normally.
C2_Witness ==
    \E r \in Reqs :
        /\ pc[r] = "returned"
        /\ Len(Picks(r, "raise", "handler")) = 1
        /\ Len(Picks(r, "raise", "error_handler")) = 1

\* C3: once a request hook has returned a non-empty response, no further
\* request hook, no router lookup and no handler is invoked for that request;
\* the response hooks run next, and each of them receives that response.
C3_RequestShortCircuit ==
    \A r \in Reqs : \A k \in DOMAIN calls[r] :
        LET e == calls[r][k]
        IN  (Is(e, "return", "request_middleware") /\ Truthy(e.val)) =>
              /\ \A j \in DOMAIN calls[r] :
                    j > k => calls[r][j].who \notin
                                {"request_middleware", "router", "handler"}
              /\ \A j \in DOMAIN calls[r] :
                    (j > k /\ calls[r][j].who = "response_middleware")
                        => calls[r][j].arg = e.val
              /\ (Len(response_middleware) > 0 /\ k < Len(calls[r])) =>
                    calls[r][k + 1] =
                        Called("response_middleware", 1,
                               response_middleware[1], r, e.val)
              /\ (Len(response_middleware) > 0 /\ k = Len(calls[r])) =>
                    pc[r] = "L192" /\ idx[r] = 1 /\ response[r] = e.val

\* C3 witness: the first of two request hooks answered, and a response hook
\* was then invoked, before the invocation returned.
C3_Witness ==
    \E r \in Reqs :
        /\ pc[r] = "returned"
        /\ Len(request_middleware) >= 2
        /\ \E k \in DOMAIN calls[r] :
              /\ Is(calls[r][k], "return", "request_middleware")
              /\ calls[r][k].idx = 1
              /\ Truthy(calls[r][k].val)
        /\ Len(Picks(r, "call", "response_middleware")) >= 1

\* C4: the response hooks an invocation calls are, in order, the hooks
\* registered for 'response' taken in reverse of registration order (all of
\* them when each returned an empty value and nothing raised); the request
\* hooks it calls are taken in registration order.
C4_ResponseHooksReversed ==
    \A r \in Reqs :
        pc[r] # "idle" =>
          /\ IsPrefix(HooksOf(Picks(r, "call", "response_middleware")),
                      Reverse(reg_response))
          /\ IsPrefix(HooksOf(Picks(r, "call", "request_middleware")),
                      reg_request)
          /\ ( /\ pc[r] \in {"L218", "returned", "raised"}
               /\ \A k \in DOMAIN calls[r] : calls[r][k].op # "raise"
                                              \/ calls[r][k].who = "response_callback"
               /\ \A k \in DOMAIN calls[r] :
                     Is(calls[r][k], "return", "response_middleware")
                         => ~Truthy(calls[r][k].val) )
             => HooksOf(Picks(r, "call", "response_middleware"))
                    = Reverse(reg_response)
          /\ Len(Picks(r, "call", "router")) > 0
             => HooksOf(Picks(r, "call", "request_middleware")) = reg_request

\* C4 witness: two different response hooks were registered and a finished
\* invocation called both, the later-registered one first.
C4_Witness ==
    \E r \in Reqs :
        /\ pc[r] = "returned"
        /\ Len(reg_response) >= 2
        /\ reg_response[1] # reg_response[2]
        /\ HooksOf(Picks(r, "call", "response_middleware"))
               = Reverse(reg_response)

\* C5: once a response hook has returned a non-empty value, no further
\* response hook is invoked: the only thing that follows is the delivery of
\* that value, which is not the response the hook was given.
C5_ResponseShortCircuit ==
    \A r \in Reqs : \A k \in DOMAIN calls[r] :
        LET e == calls[r][k]
        IN  (Is(e, "return", "response_middleware") /\ Truthy(e.val)) =>
              /\ e.val # e.arg
              /\ \A j \in DOMAIN calls[r] :
                    j > k => /\ calls[r][j].who = "response_callback"
                             /\ calls[r][j].arg = e.val
              /\ k = Len(calls[r]) => pc[r] = "L218" /\ response[r] = e.val
              /\ Finished(r) => Deliveries(r)[1].arg = e.val

\* C5 witness: the handler answered, the first of two response hooks
\* returned a value of its own, and that value was delivered.
C5_Witness ==
    \E r \in Reqs :
        /\ pc[r] = "returned"
        /\ Len(response_middleware) >= 2
        /\ \E k \in DOMAIN calls[r] :
              /\ Is(calls[r][k], "return", "handler")
              /\ Truthy(calls[r][k].val)
        /\ \E k \in DOMAIN calls[r] :
              /\ Is(calls[r][k], "return", "response_middleware")
              /\ calls[r][k].idx = 1
              /\ Truthy(calls[r][k].val)
              /\ Deliveries(r)[1].arg = calls[r][k].val

\* C6: when the router yields no handler, or a request hook, the router, the
\* handler or a response hook raises, nothing of the pipeline is invoked
\* afterwards except the error handler, which is called exactly once, at
\* once, with that request and that error; and what the error handler
\* returns (awaited or not) is exactly what is delivered.
C6_FailureTranslated ==
    \A r \in Reqs :
        /\ \A k \in DOMAIN calls[r] :
              Failure(calls[r][k]) =>
                /\ \A j \in DOMAIN calls[r] :
                      j > k => calls[r][j].who \in
                                  {"error_handler", "response_callback"}
                /\ k < Len(calls[r]) =>
                      calls[r][k + 1] =
                          Called("error_handler", 0, 0, r, calls[r][k].val)
                /\ k = Len(calls[r]) =>
                      pc[r] = "L205" /\ exc[r] = calls[r][k].val
                /\ Len(Picks(r, "call", "error_handler")) <= 1
                /\ Finished(r) => Len(Picks(r, "call", "error_handler")) = 1
        /\ \A k \in DOMAIN calls[r] :
              Is(calls[r][k], "return", "router") /\ calls[r][k].val = PyNone
                  => /\ k < Len(calls[r])
                     /\ Failure(calls[r][k + 1])
                     /\ calls[r][k + 1].val = ServerError(r)
        /\ \A k \in DOMAIN calls[r] :
              Is(calls[r][k], "return", "error_handler") =>
                /\ ResponseAfter(r, k) = calls[r][k].val
                /\ Finished(r) => Deliveries(r)[1].arg = calls[r][k].val

\* C6 witness: the handler raised, the error handler returned a response,
\* and the invocation delivered it.
C6_Witness ==
    \E r \in Reqs :
        /\ pc[r] = "returned"
        /\ Len(Picks(r, "raise", "handler")) = 1
        /\ \E k \in DOMAIN calls[r] :
              /\ Is(calls[r][k], "return", "error_handler")
              /\ Truthy(calls[r][k].val)
              /\ Deliveries(r)[1].arg = calls[r][k].val

\* C7: when the error handler raises (directly or while awaited), the
\* response delivered is the fallback: with debug true it carries the
\* message of that second error and a stack trace; with debug false or never
\* set it is the fixed generic text, with no error message and no stack.
C7_TranslationFallback ==
    \A r \in Reqs : \A k \in DOMAIN calls[r] :
        Is(calls[r][k], "raise", "error_handler") =>
            LET resp == ResponseAfter(r, k)
                e2 == calls[r][k].val
            IN  /\ Truthy(resp)
                /\ debug = "True" =>
                      /\ Has(resp.body, Msg(e2))
                      /\ HasStack(resp.body)
                /\ debug \in {"False", "None"} =>
                      /\ resp.body = GenericBody
                      /\ ~HasMsg(resp.body)
                      /\ ~HasStack(resp.body)
                /\ Finished(r) => Deliveries(r)[1].arg = resp

\* C7 witness: with debug on, the error handler raised and the response
\* delivered carries the second error's message.
C7_Witness ==
    \E r \in Reqs :
        /\ pc[r] = "returned"
        /\ debug = "True"
        /\ Len(Picks(r, "raise", "error_handler")) = 1
        /\ HasMsg(Deliveries(r)[1].arg.body)

\* C15: registering a bare callable, or with kind 'request', appends that
\* hook at the tail of the request chain and leaves the response chain as
\* it was; registering with kind 'response' inserts that hook at the head of
\* the response chain and leaves the request chain as it was; the hooks
\* already registered keep their order; nothing else changes a chain.
C15_RegistrationDispatch ==
    /\ [][\A form \in Forms, m \in Hooks :
            middleware(form, m) =>
               IF form \in {"bare", "request"}
               THEN /\ request_middleware' = Append(request_middleware, m)
                    /\ response_middleware' = response_middleware
               ELSE /\ response_middleware' = <<m>> \o response_middleware
                    /\ request_middleware' = request_middleware]_vars
    /\ [][(\/ request_middleware' # request_middleware
           \/ response_middleware' # response_middleware)
            => \E form \in Forms, m \in Hooks : middleware(form, m)]_vars

\* C15 witness: two different hooks were registered for each kind; the
\* request chain has them in registration order, the response chain reversed.
C15_Witness ==
    /\ reg_request = <<1, 2>>
    /\ request_middleware = <<1, 2>>
    /\ reg_response = <<1, 2>>
    /\ response_middleware = <<2, 1>>

\* every request hook returned an empty value (none answered, none raised)
AllRequestHooksEmpty(r) ==
    /\ Len(Picks(r, "return", "request_middleware")) = Len(request_middleware)
    /\ \A k \in DOMAIN calls[r] :
          Is(calls[r][k], "return", "request_middleware")
              => ~Truthy(calls[r][k].val)

Routed(r) ==
    \E k \in DOMAIN calls[r] :
        Is(calls[r][k], "return", "router") /\ calls[r][k].val # PyNone

\* C17: the handler is invoked at most once per request, and it is invoked
\* exactly when every request hook returned an empty value, none raised and
\* the router resolved a handler; then every request hook has returned
\* before the handler is called, and the handler's result, awaited when it
\* is an awaitable, is what the first response hook is called with.
C17_HandlerGating ==
    \A r \in Reqs :
        /\ Len(Picks(r, "call", "handler")) <= 1
        /\ Len(Picks(r, "call", "handler")) = 1
              => AllRequestHooksEmpty(r) /\ Routed(r)
        /\ (pc[r] # "idle" /\ AllRequestHooksEmpty(r) /\ Routed(r))
              => (Len(Picks(r, "call", "handler")) = 1 \/ pc[r] = "L181")
        /\ \A k \in DOMAIN calls[r] :
              Is(calls[r][k], "call", "handler") =>
                /\ \A j \in DOMAIN calls[r] :
                      calls[r][j].who = "request_middleware" => j < k
                /\ \A j \in DOMAIN calls[r] :
                      Is(calls[r][j], "call", "response_middleware") =>
                        /\ j > k + 1
                        /\ Is(calls[r][k + 1], "return", "handler")
                        /\ calls[r][j].idx = 1
                              => /\ j = k + 2
                                 /\ calls[r][j].arg = calls[r][k + 1].val

\* C17 witness: a request hook returned empty, the handler was called and
\* answered, a response hook was called, and the invocation returned.
C17_Witness ==
    \E r \in Reqs :
        /\ pc[r] = "returned"
        /\ Len(request_middleware) >= 1
        /\ Len(Picks(r, "return", "handler")) = 1
        /\ Len(Picks(r, "call", "response_middleware")) >= 1

Pipeline == {"request_middleware", "router", "handler", "response_middleware"}

\* C19: once a request hook, the router lookup, the handler or a response
\* hook has raised, no hook, no router lookup and no handler is invoked for
\* that request any more; once the error handler has been called only the
\* delivery follows, so no response hook is ever called with, or replaces,
\* the error handler's response or the fallback response.
C19_ErrorsBypassPipeline ==
    \A r \in Reqs :
        /\ \A k \in DOMAIN calls[r] :
              (calls[r][k].op = "raise" \/ calls[r][k].who = "error_handler") =>
                 \A j \in DOMAIN calls[r] :
                    j > k => calls[r][j].who \notin Pipeline
        /\ \A k \in DOMAIN calls[r] :
              (calls[r][k].who = "error_handler" /\ calls[r][k].op # "call") =>
                /\ k < Len(calls[r]) =>
                      /\ Is(calls[r][k + 1], "call", "response_callback")
                      /\ calls[r][k + 1].arg =
                            IF calls[r][k].op = "return"
                            THEN calls[r][k].val
                            ELSE fallback_response(debug, calls[r][k].val, r)
                /\ k = Len(calls[r]) => pc[r] = "L218"
        /\ \A j \in DOMAIN calls[r] :
              Is(calls[r][j], "call", "response_middleware") =>
                 calls[r][j].arg.src \notin {"error_handler", "HTTPResponse"}

\* C19 witness: with a response hook registered, the handler raised, the
\* error handler answered, and the invocation returned without having
\* called the response hook.
C19_Witness ==
    \E r \in Reqs :
        /\ pc[r] = "returned"
        /\ Len(response_middleware) >= 1
        /\ Len(Picks(r, "raise", "handler")) = 1
        /\ Len(Picks(r, "return", "error_handler")) = 1
        /\ Len(Picks(r, "call", "response_middleware")) = 0

\* C20: once run(debug=d) has set the server up, the application's debug
\* flag and the error handler's debug flag both equal d.
C20_DebugPropagated ==
    run_pc # "idle" =>
      /\ debug = server_settings.debug
      /\ error_handler_debug = debug

\* ----------------------------------------------------------------------
\* Claims about requests in flight together (specification SpecConcurrent)
\* ----------------------------------------------------------------------
Own(r, v) == v.req \in {0, r}

\* C16: with two invocations in flight and resumed in any order, a step of
\* one invocation changes nothing of the other; every call an invocation
\* makes is for its own request; it delivers exactly once, and what it
\* delivers is a value its own hooks, handler or error handler produced (or
\* the fallback built from its own second error), whatever the other did.
C16_RequestIsolation ==
    /\ [][\A r \in Reqs :
            (calls'[r] # calls[r] \/ pc'[r] # pc[r]) =>
               \A q \in Reqs \ {r} :
                  /\ pc'[q] = pc[q]
                  /\ response'[q] = response[q]
                  /\ idx'[q] = idx[q]
                  /\ exc'[q] = exc[q]
                  /\ pending'[q] = pending[q]
                  /\ calls'[q] = calls[q]]_vars
    /\ [](\A r \in Reqs :
            /\ Own(r, response[r])
            /\ \A k \in DOMAIN calls[r] :
                  /\ calls[r][k].req = r
                  /\ Own(r, calls[r][k].arg)
                  /\ Own(r, calls[r][k].val)
            /\ Len(Deliveries(r)) <= 1
            /\ Finished(r) =>
                  /\ Len(Deliveries(r)) = 1
                  /\ LET d == Deliveries(r)[1].arg
                     IN  \E k \in DOMAIN calls[r] :
                            \/ /\ calls[r][k].op = "return"
                               /\ calls[r][k].val = d
                            \/ /\ Is(calls[r][k], "raise", "error_handler")
                               /\ d = fallback_response(debug, calls[r][k].val, r))

\* C16 witness: both invocations are suspended at an await: the first on
\* its handler, the second, whose handler raised, on its error handler.
C16_Witness ==
    /\ pc[1] = "L183"
    /\ pc[2] = "L207"
    /\ Len(Picks(2, "raise", "handler")) = 1

\* ----------------------------------------------------------------------
\* Claims about run, serve_multiple and stop (specification SpecRun)
\* ----------------------------------------------------------------------
Started == {p \in Pids : proc[p].state \in {"running", "exited", "terminated"}}

ExceptionLogged ==
    \E i \in DOMAIN log : log[i] = "Experienced exception while trying to serve"

\* C8: a run with workers = N > 1 creates at most one socket and at most N
\* worker processes; the socket is closed at most once, and only when all N
\* workers were started, have ended and have been joined; and a run that
\* comes back without an exception has bound exactly one socket with the
\* reuse option set, started exactly N workers and closed the socket once.
C8_OneSocketClosedAfterJoins ==
    (run_pc # "idle" /\ workers > 1) =>
      /\ sockets_created <= 1
      /\ sockets_created = 0 <=> sock = None
      /\ Cardinality(Started) <= workers
      /\ sock # None => sock[1].closes <= 1
      /\ (sock # None /\ sock[1].closes >= 1) =>
            /\ processes # None
            /\ Len(processes[1]) = workers
            /\ joined = workers
            /\ \A p \in 1..workers : proc[p].state = "exited"
      /\ (run_pc = "returned" /\ ~ExceptionLogged) =>
            /\ sockets_created = 1
            /\ sock = Some(Socket(TRUE, TRUE, TRUE, 1))
            /\ server_settings.reuse_port = "True"
            /\ processes = Some([i \in 1..workers |-> i])
            /\ Started = 1..workers

\* C8 witness: a run with the largest number of workers came back without
\* an exception, its socket closed once.
C8_Witness ==
    /\ run_pc = "returned"
    /\ workers = MaxWorkers
    /\ workers > 1
    /\ ~ExceptionLogged
    /\ sock # None
    /\ sock[1].closes = 1
    /\ joined = workers

\* C9: a run with workers = 1 creates no socket of its own, no process and
\* no signal handler: self.sock and self.processes stay None, and the one
\* thing it does is call serve once, in this process, with the settings
\* built from its arguments.
C9_SingleWorkerInProcess ==
    (run_pc # "idle" /\ workers = 1) =>
      /\ sock = None
      /\ sockets_created = 0
      /\ processes = None
      /\ \A p \in Pids : proc[p] = NoProcess
      /\ signal_handlers = {}
      /\ server_settings = Settings("127.0.0.1", "8000", "None", "unset", debug)
      /\ served = IF run_pc = "L264" THEN <<>> ELSE <<server_settings>>

\* C9 witness: a run with one worker served in this process and came back.
C9_Witness ==
    /\ run_pc = "returned"
    /\ workers = 1
    /\ Len(served) = 1

\* C10: when a run with several workers has come back to its caller, also
\* after bind or a worker's start raised, the socket it created has been
\* closed exactly once and no worker it started is still alive.
C10_NoLeakOnReturn ==
    (run_pc = "returned" /\ workers # 1) =>
      /\ sock # None => sock[1].closes = 1
      /\ \A p \in Pids : ~Alive(p)

\* C14: run never raises to its caller.  The startup line is the first line
\* logged; an exception raised while binding, spawning or serving is logged
\* as the next step; and a run that is over has logged 'Server Stopped' last,
\* after the exception line if there was one.
C14_RunLogsAndReturns ==
    /\ [](run_pc # "raised")
    /\ [](run_pc # "idle" => (Len(log) > 0 /\ log[1] = "Goin' Fast"))
    /\ [](run_pc \in {"L264", "L265", "L305", "L315", "L321", "L324", "L272"}
            => /\ ~ExceptionLogged
               /\ \A i \in DOMAIN log : log[i] # "Server Stopped")
    /\ [][(run_pc = "L272" /\ run_pc' # run_pc) =>
            /\ run_pc' = "L275"
            /\ log' = Append(log, "Experienced exception while trying to serve")]_vars
    /\ [][(run_pc = "L275" /\ run_pc' # run_pc) =>
            /\ run_pc' = "returned"
            /\ log' = Append(log, "Server Stopped")]_vars
    /\ [](run_pc = "returned" =>
            /\ log[Len(log)] = "Server Stopped"
            /\ \A i \in 1..(Len(log) - 1) : log[i] # "Server Stopped"
            /\ ( \/ (sock # None /\ ~sock[1].bound)
                 \/ (workers # 1 /\ sock = None)
                 \/ (\E p \in Pids : proc[p].state = "unstarted") )
               => (Len(log) > 1 /\ log[Len(log) - 1] =
                      "Experienced exception while trying to serve"))

\* C14 witness: the start of the second worker raised, and run came back
\* with the four lines logged in order.
C14_Witness ==
    /\ run_pc = "returned"
    /\ proc[2].state = "unstarted"
    /\ log = <<"Goin' Fast", "Spinning up workers",
               "Experienced exception while trying to serve", "Server Stopped">>

\* C18: no worker process exists, started or not, unless the shared socket
\* has its reuse option set, is bound and is inheritable; and the settings
\* each worker is created with carry that socket, reuse_port enabled, and
\* neither host nor port.
C18_BindBeforeSpawn ==
    /\ (sock = None \/ ~sock[1].bound \/ ~sock[1].reuseaddr
           \/ ~sock[1].inheritable)
          => \A p \in Pids : proc[p] = NoProcess
    /\ \A p \in Pids :
          proc[p] # NoProcess =>
            /\ sock # None
            /\ sock[1].reuseaddr /\ sock[1].bound /\ sock[1].inheritable
            /\ proc[p].kwargs =
                  Settings("None", "None", "self.sock", "True", debug)
            /\ proc[p].kwargs = server_settings

\* C18 witness: every worker of the largest run has been started and the
\* parent has reached the joins.
C18_Witness ==
    /\ run_pc = "L321"
    /\ workers = MaxWorkers
    /\ Started = 1..workers
    /\ \A p \in Started : proc[p].kwargs.sock = "self.sock"

\* ----------------------------------------------------------------------
\* Claims about shutdown by signal (specification SpecRunFair)
\* ----------------------------------------------------------------------

\* C13: once a SIGINT or SIGTERM handler has set the stop event while the
\* workers run, the event stays set and, as a consequence, every worker
\* eventually ends, the socket is closed and run returns.
C13_SignalStopsWorkers ==
    /\ [][stop_event => stop_event']_vars
    /\ (stop_event /\ run_pc = "L321")
           ~> (/\ run_pc = "returned"
               /\ \A p \in Pids : ~Alive(p)
               /\ sock # None /\ sock[1].closes > 0)

\* ----------------------------------------------------------------------
\* Claims about stop called by the application (specification SpecStop)
\* ----------------------------------------------------------------------

\* C11: however often stop is called once workers were spawned (by the
\* application, and then again by serve_multiple after its joins), the
\* close operation of the shared socket is performed at most once.
C11_SocketClosedAtMostOnce ==
    (workers > 1 /\ Started = 1..workers /\ sock # None) => sock[1].closes <= 1

\* C12: a call of stop while self.processes is None stops the event loop
\* and does nothing else: no process, no socket and no other variable of the
\* application changes.
C12_StopWithoutProcesses ==
    [][(processes = None /\ loop_stops' # loop_stops) =>
          /\ loop_stops' = loop_stops + 1
          /\ UNCHANGED <<proc, sock, processes, sockets_created, stop_event,
                         signal_handlers, server_settings, workers, run_pc,
                         joined, served, log>>
          /\ UNCHANGED <<pipeVars, appVars>>]_vars

\* C12 witness: stop has been called although no process was ever spawned,
\* here with a socket left behind by a bind that raised.
C12_Witness ==
    /\ processes = None
    /\ loop_stops > 0
    /\ sock # None

====
